---- MODULE Spec2Model ----
(***************************************************************************)
(* Model of the agent execution engine of langgraph-mcp-client:            *)
(*   - the reflective graph built by GraphService.create_reflection_graph  *)
(*     (src/backend/services/graph_service.py), specification Spec;        *)
(*   - the interactive run of chat_stream (src/backend/app.py): the        *)
(*     producer task run_chat, streaming_callback, chunk_queue and the     *)
(*     forwarding loop of generate_stream, specification StreamSpec.       *)
(*   - the interactive run together with the graph it drives:              *)
(*     ReflectiveRunSpec (reflective graph) and DirectSpec (direct graph); *)
(*   - a client that closes the connection, specification DisconnectSpec;  *)
(*   - two requests on one GraphService, specification ServiceSpec.        *)
(*   - one call of AgentService.chat on the direct graph (batch mode),     *)
(*     specification BatchSpec;                                            *)
(*   - the interactive run under the event loop's scheduling,              *)
(*     specification StreamLiveSpec;                                       *)
(*   - two /chat requests on one AgentService, specification              *)
(*     ModelSwitchSpec;                                                    *)
(*   - the tools node with an event callback that can raise,               *)
(*     specification AnnounceSpec;                                         *)
(*   - ConfigService and MCPService (services/config_service.py,           *)
(*     services/mcp_service.py), specification ConfigSpec;                 *)
(*   - StreamingService.detect_model_type, specification DetectSpec.       *)
(***************************************************************************)
EXTENDS Integers, Sequences, FiniteSets, TLC

(***************************************************************************)
(* Bounds of the model.                                                    *)
(***************************************************************************)
\* largest value of max_loops a run is started with
MaxLoops == 4
\* largest number of tool calls in one agent response
MaxCalls == 2
\* largest number of callback invocations of one interactive run
MaxChunks == 3

(***************************************************************************)
(* Values the external collaborators (model client, tool registry) supply. *)
(***************************************************************************)
\* names of the tools passed to create_reflection_graph
RegisteredTools == {"get_weather"}
\* names a model response can carry in a tool call
CallNames == {"get_weather", "no_such_tool", "Complete"}
\* the id of the i-th tool call of a response
CallId(i) == IF i = 1 THEN "t1" ELSE IF i = 2 THEN "t2" ELSE IF i = 3 THEN "t3" ELSE "t4"
\* Strings are sequences of tokens: "" is <<>>, concatenation is \o.
\* the arguments the model passes to a tool, by name ({} is <<>>)
CallArgs(name) == IF name = "get_weather" THEN <<"location=Paris">> ELSE <<>>
\* text content of a model response
Texts == {<<>>, <<"Paris is sunny">>}
\* what a registered tool returns, what str(e) of a failed call is
ToolOutput == <<"22C sunny">>
ErrorText == <<"failure">>
\* answers of the model to the reflection prompt
ReflectionAnswers ==
    {<<"COMPLETE:", "all done">>, <<"CONTINUE:", "check the forecast">>, <<"unsure">>}

VARIABLES
    \* ---- ReflectionState (graph_service.py:14-22)
    messages, loop_step, current_progress, is_complete, max_loops,
    \* ---- position of the graph run: the node executed next
    node,
    \* ---- history of the graph run
    agent_passes,   \* number of executions of agent_node so far
    raised_in,      \* the nodes whose body has raised so far
    tool_outcomes,  \* what each tool call of the latest tools pass did
    \* ---- chat_stream closure state (app.py:208-214)
    chunk_queue, chat_complete, seen_tool_calls, collected_tool_calls,
    \* ---- position of the producer task and of the forwarding loop
    chat_task, consumer,
    \* ---- history of the interactive run
    enqueued,       \* every event put on chunk_queue, in order
    forwarded,      \* every event yielded to the client, in order
    at_deadline,    \* enqueued and chunk_queue as they were when the deadline expired
    chunks,         \* number of callback invocations so far
    \* ---- GraphService shared by concurrent requests (graph_service.py:28-29)
    current_callback,   \* GraphService.current_callback: the request whose callback it holds
    requests,           \* per request: position of its run and its chat_stream closure
    \* ---- one call of AgentService.chat (agent_service.py:264-304)
    batch,              \* its recursion_limit, the graph steps made, how it ended
    \* ---- AgentService shared by concurrent /chat requests (agent_service.py:24-27)
    agent_service,      \* its agent (by the model it was built for) and current_model
    chat_requests,      \* per /chat request: its position, the agent it runs on, its answer
    \* ---- ConfigService and MCPService (config_service.py:12-13, mcp_service.py:10-13)
    config_file,        \* the stored configuration: tool name -> tool entry
    mcp_service,        \* MCPService.client and the latest call made on the service
    \* ---- StreamingService.detect_model_type (streaming_service.py:21-42)
    streaming_service   \* the increments classified so far, each with its model type

graph_vars == <<messages, loop_step, current_progress, is_complete, max_loops,
                node, agent_passes, raised_in, tool_outcomes>>
stream_vars == <<chunk_queue, chat_complete, seen_tool_calls, collected_tool_calls,
                 chat_task, consumer, enqueued, forwarded, at_deadline, chunks>>
admin_vars == <<agent_service, chat_requests, config_file, mcp_service, streaming_service>>
service_vars == <<current_callback, requests, batch, admin_vars>>
vars == <<graph_vars, stream_vars, service_vars>>

(***************************************************************************)
(* Messages.  One record shape for AIMessage, HumanMessage and ToolMessage.*)
(***************************************************************************)
HumanMessage(text) ==
    [type |-> "human", content |-> text, tool_calls |-> <<>>,
     tool_call_id |-> "", name |-> ""]
AIMessage(text, calls) ==
    [type |-> "ai", content |-> text, tool_calls |-> calls,
     tool_call_id |-> "", name |-> ""]
ToolMessage(text, id, nm) ==
    [type |-> "tool", content |-> text, tool_calls |-> <<>>,
     tool_call_id |-> id, name |-> nm]

ToolCall(i, nm) == [id |-> CallId(i), name |-> nm, args |-> CallArgs(nm)]

\* the tool-call lists a model response can carry
ToolCallLists ==
    UNION {{[i \in 1..n |-> ToolCall(i, f[i])] : f \in [1..n -> CallNames]} : n \in 0..MaxCalls}

\* the responses model_with_tools.ainvoke can return
ModelResponses == {AIMessage(t, c) : t \in Texts, c \in ToolCallLists}

Last(s) == s[Len(s)]

(***************************************************************************)
(* The reflective graph (graph_service.py:62-282).                         *)
(***************************************************************************)
\* "for tool_call in tool_calls: if tool_call.get('name') == 'Complete'"
HasComplete(calls) == \E i \in 1..Len(calls) : calls[i].name = "Complete"

\* agent_node whose except branch forgets to count the pass
agent_node_uncounted(ls, cp, ic, outcome) ==
    IF outcome.raised
    THEN [messages |-> <<AIMessage(<<"Error: ">> \o ErrorText, <<>>)>>,
          loop_step |-> ls,
          is_complete |-> TRUE,
          current_progress |-> cp]
    ELSE [messages |-> <<outcome.response>>,
          loop_step |-> ls + 1,
          is_complete |-> HasComplete(outcome.response.tool_calls),
          current_progress |-> cp]

\* agent_node that never sets is_complete for a response of the model
agent_node_never_complete(ls, cp, ic, outcome) ==
    IF outcome.raised
    THEN [messages |-> <<AIMessage(<<"Error: ">> \o ErrorText, <<>>)>>,
          loop_step |-> ls + 1,
          is_complete |-> TRUE,
          current_progress |-> cp]
    ELSE [messages |-> <<outcome.response>>,
          loop_step |-> ls + 1,
          is_complete |-> FALSE,
          current_progress |-> cp]

\* agent_node that looks for Complete in the first tool call only
agent_node_first_call(ls, cp, ic, outcome) ==
    IF outcome.raised
    THEN [messages |-> <<AIMessage(<<"Error: ">> \o ErrorText, <<>>)>>,
          loop_step |-> ls + 1,
          is_complete |-> TRUE,
          current_progress |-> cp]
    ELSE [messages |-> <<outcome.response>>,
          loop_step |-> ls + 1,
          is_complete |-> /\ outcome.response.tool_calls # <<>>
                          /\ Head(outcome.response.tool_calls).name = "Complete",
          current_progress |-> cp]

\* agent_node: the state update it returns.  outcome.raised says that the
\* try block raised (model call failed); otherwise outcome.response is the
\* model's answer.  A key missing from the update keeps its value; a key
\* present replaces the value: ReflectionState declares no reducer for
\* messages (graph_service.py:16), so "messages": [response] becomes the
\* new value of messages.
agent_node(ls, cp, ic, outcome) ==
    IF outcome.raised
    THEN [messages |-> <<AIMessage(<<"Error: ">> \o ErrorText, <<>>)>>,
          loop_step |-> ls + 1,
          is_complete |-> TRUE,
          current_progress |-> cp]
    ELSE [messages |-> <<outcome.response>>,
          loop_step |-> ls + 1,
          is_complete |-> HasComplete(outcome.response.tool_calls),
          current_progress |-> cp]

\* should_continue whose loop limit is off by one (">" for ">=")
should_continue_late(msgs, ls, ml, ic) ==
    IF ls > ml THEN "end"
    ELSE IF ic THEN "end"
    ELSE IF Last(msgs).tool_calls # <<>>
         THEN IF HasComplete(Last(msgs).tool_calls) THEN "end" ELSE "tools"
    ELSE IF ls > 0 /\ ls % 3 = 0 THEN "reflect"
    ELSE "continue"

\* should_continue that sends every response with tool calls to tools
should_continue_tools_first(msgs, ls, ml, ic) ==
    IF ls >= ml THEN "end"
    ELSE IF Last(msgs).tool_calls # <<>> THEN "tools"
    ELSE IF ic THEN "end"
    ELSE IF ls > 0 /\ ls % 3 = 0 THEN "reflect"
    ELSE "continue"

\* should_continue that looks at the reflection rule before the tool calls
should_continue_reflect_first(msgs, ls, ml, ic) ==
    IF ls >= ml THEN "end"
    ELSE IF ic THEN "end"
    ELSE IF ls > 0 /\ ls % 3 = 0 THEN "reflect"
    ELSE IF Last(msgs).tool_calls # <<>>
         THEN IF HasComplete(Last(msgs).tool_calls) THEN "end" ELSE "tools"
    ELSE "continue"

\* should_continue: the label of the edge taken after agent
should_continue(msgs, ls, ml, ic) ==
    IF ls >= ml THEN "end"
    ELSE IF ic THEN "end"
    ELSE IF Last(msgs).tool_calls # <<>>
         THEN IF HasComplete(Last(msgs).tool_calls) THEN "end" ELSE "tools"
    ELSE IF ls > 0 /\ ls % 3 = 0 THEN "reflect"
    ELSE "continue"

\* add_conditional_edges("agent", should_continue, {...})
EdgeTarget(label) ==
    CASE label = "continue" -> "agent"
      [] label = "tools" -> "tools"
      [] label = "reflect" -> "reflect"
      [] label = "end" -> "end"

\* what one call of the latest response can do inside tool_node: a call of a
\* registered tool returns ("ok") or raises ("raise"); a Complete call and a
\* call that names no registered tool invoke nothing ("none")
CallOutcomes(call) ==
    IF call.name # "Complete" /\ call.name \in RegisteredTools
    THEN {"ok", "raise"} ELSE {"none"}

ToolOutcomes(calls) ==
    {o \in [1..Len(calls) -> {"ok", "raise", "none"}] :
        \A i \in 1..Len(calls) : o[i] \in CallOutcomes(calls[i])}

\* the ToolMessages one iteration of the loop of tool_node appends
tool_call_result(call, out) ==
    IF call.name = "Complete"
    THEN <<ToolMessage(<<"Task completed">>, call.id, "Complete")>>
    ELSE IF out = "raise"
    THEN <<ToolMessage(<<"Error: ">> \o ErrorText, call.id, call.name)>>
    ELSE IF call.name \in RegisteredTools
    THEN <<ToolMessage(ToolOutput, call.id, call.name)>>
    ELSE <<>>

\* tool_results whose try/except encloses the whole loop: the first call
\* that raises yields its error message and ends the loop
RECURSIVE tool_results_aborting(_, _)
tool_results_aborting(calls, outs) ==
    IF calls = <<>> THEN <<>>
    ELSE tool_call_result(Head(calls), Head(outs))
         \o (IF Head(outs) = "raise" THEN <<>>
             ELSE tool_results_aborting(Tail(calls), Tail(outs)))

\* the loop of tool_node over the tool calls of the latest response
RECURSIVE tool_results(_, _)
tool_results(calls, outs) ==
    IF calls = <<>> THEN <<>>
    ELSE tool_results(SubSeq(calls, 1, Len(calls) - 1), SubSeq(outs, 1, Len(outs) - 1))
         \o tool_call_result(Last(calls), Last(outs))

\* "\n".join(f"Used {result.name}: {result.content}" for result in tool_results)
RECURSIVE results_summary(_)
results_summary(results) ==
    IF results = <<>> THEN <<>>
    ELSE (IF Len(results) = 1 THEN <<>>
          ELSE results_summary(SubSeq(results, 1, Len(results) - 1)) \o <<"\n">>)
         \o <<"Used ", Last(results).name, ": ">> \o Last(results).content

\* _extract_progress that returns the new summary alone
_extract_progress_replacing(results, cp) ==
    IF results = <<>> THEN cp ELSE results_summary(results)

_extract_progress(results, cp) ==
    IF results = <<>> THEN cp
    ELSE IF cp # <<>> THEN cp \o <<"\n">> \o results_summary(results)
    ELSE results_summary(results)

\* tool_node: the state update it returns
tool_node(msgs, cp, outs) ==
    LET results == tool_results(Last(msgs).tool_calls, outs)
    IN  [messages |-> results,
         current_progress |-> _extract_progress(results, cp)]

\* content.replace(prefix, "").strip()
StripPrefix(content, prefix) == SelectSeq(content, LAMBDA t : t # prefix /\ t # " ")

\* reflection_node that appends the summary of a COMPLETE answer to the
\* progress instead of replacing the progress by it
reflection_node_appending(msgs, cp, ic, outcome) ==
    IF outcome.raised
    THEN [messages |-> msgs, is_complete |-> TRUE, current_progress |-> cp]
    ELSE IF outcome.content # <<>> /\ Head(outcome.content) = "COMPLETE:"
    THEN LET summary == StripPrefix(outcome.content, "COMPLETE:")
         IN  [messages |-> <<AIMessage(summary, <<>>)>>,
              is_complete |-> TRUE,
              current_progress |-> cp \o <<"\n">> \o summary]
    ELSE LET feedback == StripPrefix(outcome.content, "CONTINUE:")
         IN  [messages |-> <<AIMessage(<<"Need to continue: ">> \o feedback, <<>>)>>,
              is_complete |-> FALSE,
              current_progress |-> cp \o <<"\nNext: ">> \o feedback]

\* reflection_node: the state update it returns
reflection_node(msgs, cp, ic, outcome) ==
    IF outcome.raised
    THEN [messages |-> msgs, is_complete |-> TRUE, current_progress |-> cp]
    ELSE IF outcome.content # <<>> /\ Head(outcome.content) = "COMPLETE:"
    THEN LET summary == StripPrefix(outcome.content, "COMPLETE:")
         IN  [messages |-> <<AIMessage(summary, <<>>)>>,
              is_complete |-> TRUE,
              current_progress |-> summary]
    ELSE LET feedback == StripPrefix(outcome.content, "CONTINUE:")
         IN  [messages |-> <<AIMessage(<<"Need to continue: ">> \o feedback, <<>>)>>,
              is_complete |-> FALSE,
              current_progress |-> cp \o <<"\nNext: ">> \o feedback]

(***************************************************************************)
(* The interactive run (app.py:190-450).                                   *)
(***************************************************************************)
\* StreamingChatResponse (models.py:45-50); tool_call_id None is ""
StreamingChatResponse(type, content, id, done) ==
    [type |-> type, content |-> content, tool_call_id |-> id, is_complete |-> done]

\* chunk_queue = asyncio.Queue() has no capacity limit: put_nowait never
\* raises QueueFull
put_nowait(q, ev) == Append(q, ev)

\* content.strip() is empty
IsBlank(text) == \A i \in 1..Len(text) : text[i] \in {" ", "\n"}

\* json.dumps(args, indent=2)
json_dumps(args) == <<"{">> \o args \o <<"}">>

\* content blocks of a block-structured increment
TextBlock(text) == [type |-> "text", text |-> text, id |-> "", name |-> ""]
ToolUseBlock(id, nm) == [type |-> "tool_use", text |-> <<>>, id |-> id, name |-> nm]

\* the tool_calls list of a flat increment, read as the loop of
\* app.py:295-318 reads it: name and id of each entry
RECURSIVE CallItems(_)
CallItems(calls) ==
    IF calls = <<>> THEN <<>>
    ELSE <<ToolUseBlock(Head(calls).id, Head(calls).name)>> \o CallItems(Tail(calls))

\* The loop over content blocks (app.py:240-279) and the loop over tool_calls
\* (app.py:295-318): the first item that emits ends the callback ("return
\* response"); a seen id and a Complete call emit nothing and the loop goes on.
RECURSIVE surface_items(_, _, _)
surface_items(items, seen, collected) ==
    IF items = <<>> THEN [events |-> <<>>, seen |-> seen, collected |-> collected]
    ELSE LET item == Head(items) IN
         IF item.type = "text"
         THEN IF item.text # <<>>
              THEN [events |-> <<StreamingChatResponse("text", item.text, "", FALSE)>>,
                    seen |-> seen, collected |-> collected]
              ELSE surface_items(Tail(items), seen, collected)
         ELSE IF item.type = "tool_use" /\ item.name # "Unknown" /\ item.id \notin seen
         THEN IF item.name = "Complete"
              THEN surface_items(Tail(items), seen \cup {item.id}, collected)
              ELSE [events |-> <<StreamingChatResponse("tool", <<"Tool: ", item.name>>,
                                                       item.id, FALSE)>>,
                    seen |-> seen \cup {item.id},
                    collected |-> Append(collected, <<"Tool: ", item.name>>)]
         ELSE surface_items(Tail(items), seen, collected)

\* streaming_callback: the events it enqueues and the closure state it
\* leaves, for one chunk {"node": ..., "content": ...}
streaming_callback(chunk, seen, collected) ==
    LET nothing == [events |-> <<>>, seen |-> seen, collected |-> collected] IN
    IF chunk.node = "agent"
    THEN IF chunk.kind = "str" /\ ~IsBlank(chunk.text)
         THEN [events |-> <<StreamingChatResponse("text", chunk.text, "", FALSE)>>,
               seen |-> seen, collected |-> collected]
         ELSE IF (chunk.kind = "str" /\ chunk.text # <<>>)
                 \/ (chunk.kind = "list" /\ chunk.blocks # <<>>)
         THEN IF chunk.kind = "list"
              THEN surface_items(chunk.blocks, seen, collected)
              ELSE nothing
         ELSE IF chunk.tool_calls # <<>>
         THEN surface_items(CallItems(chunk.tool_calls), seen, collected)
         ELSE nothing
    ELSE IF chunk.node = "tool_args"
    THEN LET fresh == chunk.name # "unknown" /\ chunk.tool_call_id \notin seen
             name_ev == StreamingChatResponse("tool", <<"Tool: ", chunk.name>>,
                                              chunk.tool_call_id, FALSE)
             args_ev == StreamingChatResponse("tool",
                                              <<"Tool Input: ">> \o json_dumps(chunk.args),
                                              chunk.tool_call_id, FALSE)
         IN  [events |-> (IF fresh THEN <<name_ev>> ELSE <<>>)
                         \o (IF chunk.args # <<>> THEN <<args_ev>> ELSE <<>>),
              seen |-> IF fresh THEN seen \cup {chunk.tool_call_id} ELSE seen,
              collected |-> IF fresh THEN Append(collected, <<"Tool: ", chunk.name>>)
                                     ELSE collected]
    ELSE IF chunk.node = "tools"
    THEN LET tool_result == <<"Tool Result: ">> \o chunk.text IN
         IF chunk.text # <<>>
            /\ ~(\E i \in 1..Len(collected) : collected[i] = tool_result)
         THEN [events |-> <<StreamingChatResponse("tool", tool_result,
                                                  chunk.tool_call_id, FALSE)>>,
               seen |-> seen,
               collected |-> Append(collected, tool_result)]
         ELSE nothing
    ELSE nothing

\* run_chat that enqueues the completion event after the await instead of in
\* a finally block: nothing is enqueued when chat raises
run_chat_no_finally(q, outcome) ==
    IF outcome = "returned"
    THEN put_nowait(q, StreamingChatResponse("complete", <<>>, "", TRUE))
    ELSE q

\* run_chat that enqueues the completion event after the await and again
\* in its finally block
run_chat_finally_twice(q, outcome) ==
    put_nowait(put_nowait(q, StreamingChatResponse("complete", <<>>, "", TRUE)),
               StreamingChatResponse("complete", <<>>, "", TRUE))

\* the finally block of run_chat: the completion event it enqueues, whatever
\* way agent_service.chat ended ("returned", "raised", "timedout", "cancelled")
run_chat_finally(q, outcome) ==
    put_nowait(q, StreamingChatResponse("complete", <<>>, "", TRUE))

\* a loop that stops as soon as the producer is finished
loop_condition_no_drain(complete, q) == ~complete

\* "while not chat_complete or not chunk_queue.empty()"
loop_condition(complete, q) == ~complete \/ q # <<>>

\* a loop that is also left after a tool event
breaks_loop_on_tool(ev) == ev.type \in {"complete", "tool"}

\* "if chunk_response.type == 'complete': break"
breaks_loop(ev) == ev.type = "complete"

\* a queue that hands out the newest item first
queue_get_newest(q) == [item |-> Last(q), rest |-> SubSeq(q, 1, Len(q) - 1)]

\* "await asyncio.wait_for(chunk_queue.get(), timeout=0.1)" on a queue that
\* is not empty: asyncio.Queue hands out the oldest item
queue_get(q) == [item |-> Head(q), rest |-> Tail(q)]

\* the kinds of events the client is sent
IsTerminal(ev) == ev.type \in {"complete", "error"}
Terminals(s) == {i \in 1..Len(s) : IsTerminal(s[i])}
IsToolName(ev) == ev.type = "tool" /\ ev.content # <<>> /\ Head(ev.content) = "Tool: "
IsToolArgs(ev) == ev.type = "tool" /\ ev.content # <<>> /\ Head(ev.content) = "Tool Input: "
Max(a, b) == IF a >= b THEN a ELSE b
IsToolResult(ev) ==
    ev.type = "tool" /\ ev.content # <<>> /\ Head(ev.content) = "Tool Result: "

(***************************************************************************)
(* Initial state.  The graph state is the one a run is started with        *)
(* (spec.md section 3); the streaming state is the one chat_stream builds  *)
(* before it starts the producer task.                                     *)
(***************************************************************************)
GraphInit ==
    /\ messages = <<HumanMessage(<<"weather in Paris?">>)>>
    /\ loop_step = 0
    /\ current_progress = <<>>
    /\ is_complete = FALSE
    /\ max_loops \in 0..MaxLoops
    /\ node = "agent"
    /\ agent_passes = 0
    /\ raised_in = {}
    /\ tool_outcomes = [calls |-> <<>>, outs |-> <<>>]

StreamInit ==
    /\ chunk_queue = <<>>
    /\ chat_complete = FALSE
    /\ seen_tool_calls = {}
    /\ collected_tool_calls = <<>>
    /\ chat_task = "running"
    /\ consumer = "loop"
    /\ enqueued = <<>>
    /\ forwarded = <<>>
    /\ at_deadline = [enqueued |-> <<>>, queue |-> <<>>]
    /\ chunks = 0

\* two chat_stream requests served by the same GraphService
Requests == {"A", "B"}

\* GraphService.__init__ (current_callback = None) and, per request, the
\* closure chat_stream builds: its run not yet started, its queue empty
ServiceInit ==
    /\ current_callback = "None"
    /\ requests = [r \in Requests |->
                     [pc |-> "created", chunk_queue |-> <<>>, seen_tool_calls |-> {},
                      collected_tool_calls |-> <<>>, call |-> "", issued |-> {},
                      chunks |-> 0]]

\* no call of AgentService.chat is followed
NoBatch == [call |-> "none", awaited |-> "none", error |-> <<>>,
            recursion_limit |-> 0, steps |-> 0]

BatchIdle == batch = NoBatch

\* a /chat request that has not arrived yet
NoChat == [pc |-> "idle", model |-> "None", runs_on |-> "None", model_used |-> "None"]

\* AgentService.__init__: agent = None, current_model = None
AgentServiceInit ==
    /\ agent_service = [agent |-> "None", current_model |-> "None"]
    /\ chat_requests = [r \in Requests |-> NoChat]

\* a tool entry as ToolConfig holds it; None and [] are "" and <<>>
ToolEntry(command, args, url, transport) ==
    [command |-> command, args |-> args, url |-> url, transport |-> transport]

\* ConfigService.default_config
default_config ==
    [n \in {"get_current_time"} |->
        ToolEntry("python", <<"./mcp_servers/time_server.py">>, "", "stdio")]

\* no call has been made on MCPService or ConfigService yet
NoCall == [op |-> "none", input |-> <<>>, result |-> "none", tools |-> <<>>]

\* MCPService.client = None
NoClient == [connected |-> FALSE, connections |-> [n \in {} |-> n]]

\* the configuration file holds the default configuration, MCPService has
\* no client (MCPService.__init__), no call has been made
ConfigInit ==
    /\ config_file = [readable |-> TRUE, config |-> default_config]
    /\ mcp_service = [client |-> NoClient, call |-> NoCall]

\* no increment has been classified
StreamingServiceInit == streaming_service = <<>>

Init ==
    /\ GraphInit /\ StreamInit /\ ServiceInit /\ BatchIdle
    /\ AgentServiceInit /\ ConfigInit /\ StreamingServiceInit

(***************************************************************************)
(* Steps of the reflective graph: one node, then the edge out of it.       *)
(***************************************************************************)
AgentOutcomes ==
    {[raised |-> TRUE, response |-> AIMessage(<<>>, <<>>)]}
    \cup {[raised |-> FALSE, response |-> r] : r \in ModelResponses}

ReflectionOutcomes ==
    {[raised |-> TRUE, content |-> <<>>]}
    \cup {[raised |-> FALSE, content |-> c] : c \in ReflectionAnswers}

\* the agent node when the model call ends as outcome says
Agent(outcome) ==
    /\ node = "agent"
    /\ LET u == agent_node(loop_step, current_progress, is_complete, outcome)
       IN  /\ messages' = u.messages
           /\ loop_step' = u.loop_step
           /\ is_complete' = u.is_complete
           /\ current_progress' = u.current_progress
           /\ node' = EdgeTarget(should_continue(u.messages, u.loop_step,
                                                 max_loops, u.is_complete))
           /\ raised_in' = IF outcome.raised THEN raised_in \cup {"agent"}
                                             ELSE raised_in
    /\ agent_passes' = agent_passes + 1
    /\ UNCHANGED <<max_loops, tool_outcomes>>

agent_step == \E outcome \in AgentOutcomes : Agent(outcome)

AgentNode == agent_step /\ UNCHANGED <<stream_vars, service_vars>>

tools_step ==
    /\ node = "tools"
    /\ \E outs \in ToolOutcomes(Last(messages).tool_calls) :
         LET u == tool_node(messages, current_progress, outs)
         IN  /\ messages' = u.messages
             /\ current_progress' = u.current_progress
             /\ tool_outcomes' = [calls |-> Last(messages).tool_calls, outs |-> outs]
    /\ node' = "agent"
    /\ UNCHANGED <<loop_step, is_complete, max_loops, agent_passes, raised_in>>

ToolNode == tools_step /\ UNCHANGED <<stream_vars, service_vars>>

\* the reflect node when the reflection model call ends as outcome says
Reflect(outcome) ==
    /\ node = "reflect"
    /\ LET u == reflection_node(messages, current_progress, is_complete, outcome)
       IN  /\ messages' = u.messages
           /\ is_complete' = u.is_complete
           /\ current_progress' = u.current_progress
           /\ raised_in' = IF outcome.raised THEN raised_in \cup {"reflect"}
                                             ELSE raised_in
    /\ node' = "agent"
    /\ UNCHANGED <<loop_step, max_loops, agent_passes, tool_outcomes>>

reflect_step == \E outcome \in ReflectionOutcomes : Reflect(outcome)

ReflectionNode == reflect_step /\ UNCHANGED <<stream_vars, service_vars>>

Next == AgentNode \/ ToolNode \/ ReflectionNode

Spec == Init /\ [][Next]_vars

(***************************************************************************)
(* Steps of the interactive run.  The producer task is run_chat, which     *)
(* awaits agent_service.chat; every chunk the graph run yields (and every  *)
(* "tool_args" announcement of the tools node) is one call of              *)
(* streaming_callback.  The consumer is the loop of generate_stream.       *)
(***************************************************************************)
Chunk(nd, kind, text, blocks, calls, id, nm, args) ==
    [node |-> nd, kind |-> kind, text |-> text, blocks |-> blocks,
     tool_calls |-> calls, tool_call_id |-> id, name |-> nm, args |-> args]

StreamIds == {CallId(i) : i \in 1..2}

Blocks ==
    {TextBlock(t) : t \in Texts}
    \cup {ToolUseBlock(id, nm) : id \in StreamIds, nm \in {"get_weather", "Complete"}}

BlockLists == UNION {[1..n -> Blocks] : n \in 0..MaxCalls}

\* the chunks a graph run can hand to the callback
StreamChunks ==
    \* flat agent increments: a string and a tool-call list
    {Chunk("agent", "str", t, <<>>, c, "", "", <<>>) :
        t \in Texts \cup {<<" ">>}, c \in ToolCallLists}
    \* block-structured agent increments
    \cup {Chunk("agent", "list", <<>>, b, <<>>, "", "", <<>>) : b \in BlockLists}
    \* announcements of a tool's arguments (graph_service.py:152-161)
    \cup {Chunk("tool_args", "dict", <<>>, <<>>, <<>>, id, nm, a) :
            id \in StreamIds, nm \in RegisteredTools,
            a \in {CallArgs(n) : n \in CallNames}}
    \* ToolMessages of the tools node
    \cup {Chunk("tools", "str", t, <<>>, <<>>, id, nm, <<>>) :
            t \in {<<>>, ToolOutput, <<"Error: ">> \o ErrorText},
            id \in StreamIds, nm \in RegisteredTools}
    \* the message of the reflect node
    \cup {Chunk("reflect", "str", <<"Need to continue: ">>, <<>>, <<>>, "", "", <<>>)}

\* astream_graph hands chunk to the callback (agent_service.py:85-89)
Callback(chunk) ==
    /\ chat_task = "running"
    /\ chunks < MaxChunks
    /\ LET r == streaming_callback(chunk, seen_tool_calls, collected_tool_calls)
       IN  /\ chunk_queue' = chunk_queue \o r.events
           /\ enqueued' = enqueued \o r.events
           /\ seen_tool_calls' = r.seen
           /\ collected_tool_calls' = r.collected
    /\ chunks' = chunks + 1
    /\ UNCHANGED <<chat_complete, chat_task, consumer, forwarded, at_deadline,
                   graph_vars, service_vars>>

ProducerCallback == \E chunk \in StreamChunks : Callback(chunk)

\* run_chat leaves its try block in one of three ways and runs its finally:
\* chat returned, chat raised RuntimeError("Error during chat"), or the
\* deadline of asyncio.wait_for expired and chat raised RuntimeError("timed out")
ProducerEnds(outcome) ==
    /\ chat_task = "running"
    /\ chat_task' = outcome
    /\ chat_complete' = TRUE
    /\ chunk_queue' = run_chat_finally(chunk_queue, outcome)
    /\ enqueued' = enqueued \o SubSeq(chunk_queue', Len(chunk_queue) + 1, Len(chunk_queue'))
    /\ at_deadline' = IF outcome = "timedout"
                      THEN [enqueued |-> enqueued, queue |-> chunk_queue]
                      ELSE at_deadline
    /\ UNCHANGED <<seen_tool_calls, collected_tool_calls, consumer, forwarded, chunks,
                   graph_vars, service_vars>>

ProducerReturns == ProducerEnds("returned")
ProducerRaises == ProducerEnds("raised")
ProducerTimesOut == ProducerEnds("timedout")

\* one iteration of the while loop of generate_stream; a poll that times out
\* (empty queue) changes nothing and is left to stuttering.  The handler
\* "except Exception" (app.py:426-434) has nothing to catch: every queue
\* item is a validated StreamingChatResponse, which json.dumps serialises.
ConsumerLoop ==
    /\ consumer = "loop"
    /\ IF ~loop_condition(chat_complete, chunk_queue)
       THEN /\ consumer' = "cleanup"
            /\ UNCHANGED <<chunk_queue, forwarded>>
       ELSE /\ chunk_queue # <<>>
            /\ chunk_queue' = queue_get(chunk_queue).rest
            /\ forwarded' = Append(forwarded, queue_get(chunk_queue).item)
            /\ consumer' = IF breaks_loop(queue_get(chunk_queue).item)
                           THEN "cleanup" ELSE "loop"
    /\ UNCHANGED <<chat_complete, seen_tool_calls, collected_tool_calls, chat_task,
                   enqueued, chunks, at_deadline, graph_vars, service_vars>>

\* "if not chat_task.done(): chat_task.cancel(); await chat_task": the
\* cancellation is raised inside run_chat, whose finally block runs
ConsumerCleanup ==
    /\ consumer = "cleanup"
    /\ consumer' = "done"
    /\ IF chat_task = "running"
       THEN /\ chat_task' = "cancelled"
            /\ chat_complete' = TRUE
            /\ chunk_queue' = run_chat_finally(chunk_queue, "cancelled")
            /\ enqueued' = enqueued
                   \o SubSeq(chunk_queue', Len(chunk_queue) + 1, Len(chunk_queue'))
       ELSE UNCHANGED <<chat_task, chat_complete, chunk_queue, enqueued>>
    /\ UNCHANGED <<seen_tool_calls, collected_tool_calls, forwarded, chunks,
                   at_deadline, graph_vars, service_vars>>

StreamNext ==
    \/ ProducerCallback
    \/ ProducerReturns
    \/ ProducerRaises
    \/ ProducerTimesOut
    \/ ConsumerLoop
    \/ ConsumerCleanup

\* the graph variables play no part in the interactive run
StreamSpecInit == Init /\ max_loops = MaxLoops

StreamSpec == StreamSpecInit /\ [][StreamNext]_vars

(***************************************************************************)
(* The interactive run of a client that may go away.  When the client      *)
(* closes the connection the server closes or cancels generate_stream at  *)
(* the point where it is suspended (the yield or the await of the loop):   *)
(* GeneratorExit or CancelledError is raised there.  Neither is an         *)
(* Exception, so no handler of generate_stream catches it, and the task    *)
(* cleanup (app.py:436-442) is not in a finally block: the generator ends  *)
(* without running it.  chat_task was started with asyncio.create_task and *)
(* goes on by itself.                                                      *)
(***************************************************************************)
ClientDisconnects ==
    /\ consumer = "loop"
    /\ consumer' = "closed"
    /\ UNCHANGED <<chunk_queue, chat_complete, seen_tool_calls, collected_tool_calls,
                   chat_task, enqueued, forwarded, at_deadline, chunks,
                   graph_vars, service_vars>>

DisconnectNext == StreamNext \/ ClientDisconnects

DisconnectSpec == StreamSpecInit /\ [][DisconnectNext]_vars

\* C19 (as claimed): whenever the consumer has stopped, after forwarding a
\* terminal event or because the client closed the connection, the producer
\* task is finished or has been cancelled.
C19_NoProducerOutlivesConsumer ==
    consumer \in {"done", "closed"} => chat_task # "running"

(***************************************************************************)
(* An interactive run together with the graph it drives.  In stream mode   *)
(* "messages" the graph run yields, tagged with the node they come from,   *)
(* the increments of every model response and the messages a node returns; *)
(* the loop of astream_graph hands each of them to the callback.           *)
(***************************************************************************)
\* the provider shapes in which a response reaches the callback: one flat
\* increment (content string plus tool-call list), one flat increment per
\* token of the content followed by one carrying the tool calls, or one
\* block-structured increment (text block, then tool-use blocks)
Shapes == {"flat", "tokens", "blocks"}

Increments(r, shape) ==
    CASE shape = "flat" ->
            <<Chunk("agent", "str", r.content, <<>>, r.tool_calls, "", "", <<>>)>>
      [] shape = "tokens" ->
            [i \in 1..Len(r.content) |->
                Chunk("agent", "str", <<r.content[i]>>, <<>>, <<>>, "", "", <<>>)]
            \o (IF r.tool_calls # <<>>
                THEN <<Chunk("agent", "str", <<>>, <<>>, r.tool_calls, "", "", <<>>)>>
                ELSE <<>>)
      [] shape = "blocks" ->
            <<Chunk("agent", "list", <<>>,
                    (IF r.content # <<>> THEN <<TextBlock(r.content)>> ELSE <<>>)
                    \o CallItems(r.tool_calls),
                    <<>>, "", "", <<>>)>>

\* the ToolMessages a tools node returns, as chunks of node "tools"
ToolChunks(results) ==
    [i \in 1..Len(results) |->
        Chunk("tools", "str", results[i].content, <<>>, <<>>,
              results[i].tool_call_id, results[i].name, <<>>)]

\* the announcements tool_node makes while it executes calls: one for every
\* call whose tool is found and whose arguments are not empty, made before
\* the tool is invoked (graph_service.py:146-165)
ToolArgsChunks(calls, outs) ==
    LET pairs == [i \in 1..Len(calls) |-> [call |-> calls[i], out |-> outs[i]]]
        announced == SelectSeq(pairs, LAMBDA x : x.out # "none" /\ x.call.args # <<>>)
    IN  [i \in 1..Len(announced) |->
            Chunk("tool_args", "dict", <<>>, <<>>, <<>>, announced[i].call.id,
                  announced[i].call.name, announced[i].call.args)]

\* streaming_callback called with each chunk of chs in turn
RECURSIVE callbacks(_, _, _)
callbacks(chs, seen, collected) ==
    IF chs = <<>> THEN [events |-> <<>>, seen |-> seen, collected |-> collected]
    ELSE LET first == streaming_callback(Head(chs), seen, collected)
             rest == callbacks(Tail(chs), first.seen, first.collected)
         IN  [events |-> first.events \o rest.events,
              seen |-> rest.seen, collected |-> rest.collected]

\* the producer task hands the chunks chs to the callback
Emit(chs) ==
    /\ chat_task = "running"
    /\ LET r == callbacks(chs, seen_tool_calls, collected_tool_calls)
       IN  /\ chunk_queue' = chunk_queue \o r.events
           /\ enqueued' = enqueued \o r.events
           /\ seen_tool_calls' = r.seen
           /\ collected_tool_calls' = r.collected
    /\ chunks' = chunks + Len(chs)
    /\ UNCHANGED <<chat_complete, chat_task, consumer, forwarded, at_deadline,
                   service_vars>>

(***************************************************************************)
(* The interactive run of a reflective graph started with max_loops = 2    *)
(* (scenario C of spec.md section 8).  Such a run never enters reflect:    *)
(* should_continue returns "reflect" only for a loop_step that is a        *)
(* multiple of 3, and from loop_step = 2 on it returns "end".              *)
(***************************************************************************)
ReflectiveAgent ==
    /\ agent_step
    /\ \E shape \in {"flat", "blocks"} : Emit(Increments(Last(messages'), shape))

ReflectiveTools ==
    /\ tools_step
    /\ Emit(ToolArgsChunks(tool_outcomes'.calls, tool_outcomes'.outs)
            \o ToolChunks(messages'))

\* the graph run has reached END: astream_graph and chat return
ReflectiveReturns == node = "end" /\ ProducerReturns

ReflectiveRunNext ==
    \/ ReflectiveAgent
    \/ ReflectiveTools
    \/ ReflectiveReturns
    \/ ProducerTimesOut
    \/ ConsumerLoop
    \/ ConsumerCleanup

ReflectiveRunInit == Init /\ max_loops = 2

ReflectiveRunSpec == ReflectiveRunInit /\ [][ReflectiveRunNext]_vars

\* a run of ReflectiveRunSpec is never about to enter reflect
NeverReflects == node # "reflect"

\* C14 (as claimed): when a reflective run has ended because loop_step
\* reached max_loops while is_complete is false, the terminal event the
\* client was sent is a complete event whose content is current_progress.
C14_CompleteCarriesProgress ==
    (consumer = "done" /\ chat_task = "returned" /\ node = "end"
        /\ loop_step >= max_loops /\ ~is_complete)
    => (Last(forwarded).type = "complete" /\ Last(forwarded).content = current_progress)

(***************************************************************************)
(* The interactive run of the direct graph: AgentService builds it with    *)
(* create_react_agent (agent_service.py:251-256) and chat runs it under    *)
(* astream_graph (agent_service.py:23-133).  The graph itself is           *)
(* langgraph's: agent appends the model's response to messages and goes to *)
(* end when the response carries no tool call, to tools otherwise; tools   *)
(* appends one ToolMessage per call and goes back to agent.  astream_graph *)
(* calls the callback with a graph node's name only: no "tool_args" call.  *)
(***************************************************************************)
\* text content of a response of the direct run; the longest one reaches
\* the callback, when streamed, as three increments
DirectTexts == Texts \cup {<<"Paris is sunny.", "\n", "Bring sunglasses.">>}

DirectCallLists == {[i \in 1..n |-> ToolCall(i, "get_weather")] : n \in 0..MaxCalls}

DirectResponses == {AIMessage(t, c) : t \in DirectTexts, c \in DirectCallLists}

\* the tools node of the direct graph: one ToolMessage per call, carrying
\* the tool's output or the text of its error
react_tools(calls, outs) ==
    [i \in 1..Len(calls) |->
        ToolMessage(IF outs[i] = "raise" THEN <<"Error: ">> \o ErrorText ELSE ToolOutput,
                    calls[i].id, calls[i].name)]

\* the agent node of the direct graph when the model answers r
direct_agent(r) ==
    /\ node = "agent"
    /\ messages' = Append(messages, r)
    /\ node' = IF r.tool_calls = <<>> THEN "end" ELSE "tools"
    /\ UNCHANGED <<loop_step, current_progress, is_complete, max_loops, agent_passes,
                   raised_in, tool_outcomes>>

\* the tools node of the direct graph when the calls end as outs says
direct_tools(outs) ==
    /\ node = "tools"
    /\ messages' = messages \o react_tools(Last(messages).tool_calls, outs)
    /\ node' = "agent"
    /\ UNCHANGED <<loop_step, current_progress, is_complete, max_loops, agent_passes,
                   raised_in, tool_outcomes>>

DirectAgent ==
    /\ chunks < MaxChunks
    /\ \E r \in DirectResponses, shape \in Shapes :
         direct_agent(r) /\ Emit(Increments(r, shape))

DirectTools ==
    \E outs \in [1..Len(Last(messages).tool_calls) -> {"ok", "raise"}] :
        /\ direct_tools(outs)
        /\ Emit(ToolChunks(react_tools(Last(messages).tool_calls, outs)))

\* the graph run has reached END: astream_graph and chat return
DirectReturns == node = "end" /\ ProducerReturns

DirectNext ==
    \/ DirectAgent
    \/ DirectTools
    \/ DirectReturns
    \/ ProducerRaises
    \/ ProducerTimesOut
    \/ ConsumerLoop
    \/ ConsumerCleanup

DirectSpec == StreamSpecInit /\ [][DirectNext]_vars

RECURSIVE ConcatContents(_)
ConcatContents(evs) ==
    IF evs = <<>> THEN <<>> ELSE Head(evs).content \o ConcatContents(Tail(evs))

\* C15 (as claimed, direct variant): once a run has returned and the client
\* has been sent everything, for every tool call of the run that has
\* arguments and whose tool_name event was sent, the client was sent the
\* tool_name event "Tool: {name}", after it a tool_args event with the
\* serialized arguments, and after that a tool_result event, all three
\* carrying the id of the call.
C15_NameArgsResultInOrder ==
    (consumer = "done" /\ chat_task = "returned") =>
        \A m \in 1..Len(messages) : \A c \in 1..Len(messages[m].tool_calls) :
            LET call == messages[m].tool_calls[c]
                named(i) == /\ forwarded[i].tool_call_id = call.id
                            /\ forwarded[i].content = <<"Tool: ", call.name>>
                args(j) == /\ forwarded[j].tool_call_id = call.id
                           /\ forwarded[j].content
                                  = <<"Tool Input: ">> \o json_dumps(call.args)
                result(k) == /\ forwarded[k].tool_call_id = call.id
                             /\ IsToolResult(forwarded[k])
            IN  (/\ call.name # "Complete"
                 /\ call.args # <<>>
                 /\ \E i \in 1..Len(forwarded) : named(i))
                => \E i, j, k \in 1..Len(forwarded) :
                      i < j /\ j < k /\ named(i) /\ args(j) /\ result(k)

\* C16 (as claimed): when the model of a direct run has answered with a text
\* that is not empty and no tool call, the graph has gone from agent to end,
\* the run has returned and the client has been sent everything, the client
\* was sent text events whose contents make up that text, then one complete
\* event, and nothing else.
C16_PlainTextThenComplete ==
    (/\ consumer = "done" /\ chat_task = "returned"
     /\ Len(messages) = 2 /\ messages[2].content # <<>> /\ messages[2].tool_calls = <<>>)
    => LET n == Len(forwarded) IN
       /\ node = "end"
       /\ n >= 2
       /\ forwarded[n].type = "complete"
       /\ \A i \in 1..(n - 1) : forwarded[i].type = "text"
       /\ ConcatContents(SubSeq(forwarded, 1, n - 1)) = messages[2].content

(***************************************************************************)
(* Two requests on one GraphService (graph_service.py:299-381).  Each run  *)
(* of astream_graph stores its callback in the attribute current_callback  *)
(* of the shared GraphService and hands the chunks of its graph run to its *)
(* own callback (the local parameter); tool_node announces a tool's        *)
(* arguments through the attribute.  Every queue entry is tagged with the  *)
(* request whose run produced it, and every request records the tool-call  *)
(* ids its own run issued.                                                 *)
(***************************************************************************)
Tag(events, r) == [i \in 1..Len(events) |-> [event |-> events[i], run |-> r]]

\* the callback of a request (its streaming_callback closure) called with
\* chunk by the run of request producer
Deliver(closure, chunk, producer) ==
    LET res == streaming_callback(chunk, closure.seen_tool_calls,
                                  closure.collected_tool_calls)
    IN  [closure EXCEPT !.chunk_queue = @ \o Tag(res.events, producer),
                        !.seen_tool_calls = res.seen,
                        !.collected_tool_calls = res.collected]

\* "self.current_callback = callback", then the graph run starts at agent
astream_graph(r) ==
    /\ requests[r].pc = "created"
    /\ current_callback' = r
    /\ requests' = [requests EXCEPT ![r].pc = "agent"]

\* the agent node of request r answers with one call of a registered tool;
\* the loop of astream_graph hands the chunk to callback, its own parameter
\* (graph_service.py:368-371)
agent_chunk(r) ==
    /\ requests[r].pc = "agent"
    /\ requests[r].chunks < MaxChunks
    /\ \E i \in 1..MaxCalls :
         LET chunk == Chunk("agent", "str", <<>>, <<>>, <<ToolCall(i, "get_weather")>>,
                            "", "", <<>>)
         IN  requests' = [requests EXCEPT
                 ![r] = [Deliver(@, chunk, r) EXCEPT !.pc = "tool_args",
                                                     !.call = CallId(i),
                                                     !.issued = @ \cup {CallId(i)},
                                                     !.chunks = @ + 1]]
    /\ UNCHANGED current_callback

\* tool_node of request r: "if self.current_callback and tool_args:
\* self.current_callback({'node': 'tool_args', ...})" (graph_service.py:152-161)
tool_args_callback(r) ==
    /\ requests[r].pc = "tool_args"
    /\ LET chunk == Chunk("tool_args", "dict", <<>>, <<>>, <<>>, requests[r].call,
                          "get_weather", CallArgs("get_weather"))
           target == current_callback
       IN  requests' = [requests EXCEPT ![target] = Deliver(@, chunk, r),
                                        ![r].pc = "tools"]
    /\ UNCHANGED current_callback

\* the ToolMessage of the call, handed to callback by the loop of astream_graph
tools_chunk(r) ==
    /\ requests[r].pc = "tools"
    /\ LET chunk == Chunk("tools", "str", ToolOutput, <<>>, <<>>, requests[r].call,
                          "get_weather", <<>>)
       IN  requests' = [requests EXCEPT
               ![r] = [Deliver(@, chunk, r) EXCEPT !.pc = "agent"]]
    /\ UNCHANGED current_callback

\* the graph run of request r ends, chat returns and the finally block of
\* run_chat enqueues the completion event; current_callback is left as it is
chat_returns(r) ==
    /\ requests[r].pc = "agent"
    /\ requests' = [requests EXCEPT
           ![r].pc = "returned",
           ![r].chunk_queue = @ \o Tag(run_chat_finally(<<>>, "returned"), r)]
    /\ UNCHANGED current_callback

StartStreaming == \E r \in Requests : astream_graph(r) /\ UNCHANGED <<graph_vars, stream_vars, batch, admin_vars>>
AgentChunk == \E r \in Requests : agent_chunk(r) /\ UNCHANGED <<graph_vars, stream_vars, batch, admin_vars>>
ToolArgsCallback ==
    \E r \in Requests : tool_args_callback(r) /\ UNCHANGED <<graph_vars, stream_vars, batch, admin_vars>>
ToolsChunk == \E r \in Requests : tools_chunk(r) /\ UNCHANGED <<graph_vars, stream_vars, batch, admin_vars>>
ChatReturns == \E r \in Requests : chat_returns(r) /\ UNCHANGED <<graph_vars, stream_vars, batch, admin_vars>>

ServiceNext == StartStreaming \/ AgentChunk \/ ToolArgsCallback \/ ToolsChunk \/ ChatReturns

ServiceSpec == StreamSpecInit /\ [][ServiceNext]_vars

(***************************************************************************)
(* Properties of concurrent requests (checked under ServiceSpec).          *)
(***************************************************************************)
\* C11 (as claimed): two runs on the same GraphService share no mutable
\* state: every event in a request's queue was produced by that request's
\* own run, and the seen-call set of a request holds only ids its own run
\* issued.
C11_RunsShareNoState ==
    \A r \in Requests :
        /\ \A i \in 1..Len(requests[r].chunk_queue) : requests[r].chunk_queue[i].run = r
        /\ requests[r].seen_tool_calls \subseteq requests[r].issued

(***************************************************************************)
(* Properties of the interactive run (checked under StreamSpec).           *)
(***************************************************************************)

\* C1: in every interactive run (chat returned, chat raised, deadline
\* expired) the client is sent at most one terminal event, nothing is sent
\* after it, the forwarding loop is left only after exactly one terminal
\* event was sent, and while the loop still runs after the producer ended
\* the terminal event is waiting in the queue.
C1_ExactlyOneTerminalEventLast ==
    /\ Cardinality(Terminals(forwarded)) <= 1
    /\ Terminals(forwarded) \subseteq {Len(forwarded)}
    /\ consumer # "loop" => Cardinality(Terminals(forwarded)) = 1
    /\ (consumer = "loop" /\ chat_task # "running")
          => (chunk_queue # <<>> /\ IsTerminal(Last(chunk_queue)))

C1_Witness ==
    /\ consumer = "done"
    /\ chat_task = "raised"
    /\ Len(forwarded) >= 3
    /\ IsTerminal(Last(forwarded))

\* C2 (as claimed): for every tool-call id, at most one tool_name event and
\* at most one tool_args event with that id is enqueued in a run.
C2_AtMostOneNameAndArgsPerId ==
    \A id \in StreamIds :
        /\ Cardinality({i \in 1..Len(enqueued) :
                IsToolName(enqueued[i]) /\ enqueued[i].tool_call_id = id}) <= 1
        /\ Cardinality({i \in 1..Len(enqueued) :
                IsToolArgs(enqueued[i]) /\ enqueued[i].tool_call_id = id}) <= 1

\* C6: when the deadline expired, the client has been sent, once the
\* forwarding loop is left, every event enqueued before the expiry, in the
\* order of production, followed by the terminal event; until then it has
\* been sent a prefix of them.
C6_NothingLostOnTimeout ==
    chat_task = "timedout" =>
        LET n == Len(at_deadline.enqueued) IN
        /\ Len(forwarded) <= n + 1
        /\ \A i \in 1..Len(forwarded) :
              IF i <= n THEN forwarded[i] = at_deadline.enqueued[i]
                        ELSE IsTerminal(forwarded[i])
        /\ \A i \in 1..n : ~IsTerminal(at_deadline.enqueued[i])
        /\ consumer # "loop" => Len(forwarded) = n + 1

C6_Witness ==
    /\ chat_task = "timedout"
    /\ consumer = "done"
    /\ Len(at_deadline.queue) >= 2
    /\ Len(at_deadline.enqueued) > Len(at_deadline.queue)

\* C12: the events sent to the client are, at every moment, the first of the
\* events enqueued, in the same order; what is enqueued and not yet sent is
\* waiting in the queue in that order; and once the forwarding loop is left
\* every enqueued event, the terminal event last, has been sent exactly once.
C12_ForwardedAsEnqueued ==
    /\ Len(forwarded) <= Len(enqueued)
    /\ \A i \in 1..Len(forwarded) : forwarded[i] = enqueued[i]
    /\ enqueued = forwarded \o chunk_queue
    /\ consumer # "loop" => (forwarded = enqueued /\ IsTerminal(Last(forwarded)))

C12_Witness ==
    /\ consumer = "done"
    /\ Len(forwarded) >= 4
    /\ forwarded[1] # forwarded[2]
    /\ forwarded[2] # forwarded[3]

\* C13 (as claimed, for the increments whose content is not empty): every
\* callback with a tools-state increment enqueues exactly one tool_result
\* event, which carries the increment's tool_call_id and content, whatever
\* results were enqueued before it.
C13_EveryToolResultSurfaced ==
    [][\A chunk \in StreamChunks :
          (chunk.node = "tools" /\ chunk.text # <<>> /\ Callback(chunk)) =>
              /\ Len(enqueued') = Len(enqueued) + 1
              /\ IsToolResult(Last(enqueued'))
              /\ Last(enqueued').tool_call_id = chunk.tool_call_id
              /\ Last(enqueued').content = <<"Tool Result: ">> \o chunk.text]_vars

\* C9 (as claimed): after the deadline expired, the terminal event the
\* client is sent is of kind error.
C9_TimeoutReportedAsError ==
    (chat_task = "timedout" /\ consumer # "loop")
        => (forwarded # <<>> /\ Last(forwarded).type = "error")

(***************************************************************************)
(* Properties of the reflective graph (checked under Spec).                *)
(***************************************************************************)
IsErrorMessage(m) == m.type = "ai" /\ m.content # <<>> /\ Head(m.content) = "Error: "

\* C3: loop_step starts at 0; a pass through agent_node, whether the model
\* call returns or raises, adds exactly 1; tool_node and reflection_node
\* leave it unchanged; so it equals the number of agent passes and never
\* decreases.
C3_LoopStepCountsAgentPasses ==
    /\ loop_step = 0
    /\ [][/\ node = "agent" => loop_step' = loop_step + 1
          /\ node \in {"tools", "reflect"} => loop_step' = loop_step
          /\ loop_step' = agent_passes'
          /\ loop_step' >= loop_step]_vars

C3_Witness ==
    /\ loop_step >= 2
    /\ "agent" \in raised_in
    /\ tool_outcomes.calls # <<>>

\* C4 (as claimed): loop_step never exceeds max_loops.
C4_LoopStepWithinMaxLoops == loop_step <= max_loops

\* C4 (amended): the first pass through agent is unconditional, so the cap
\* is max_loops or 1, whichever is larger: loop_step and the number of agent
\* passes never exceed it, and a run whose loop_step has reached max_loops
\* is at end.
C4_LoopStepWithinCap ==
    /\ loop_step <= Max(max_loops, 1)
    /\ agent_passes <= Max(max_loops, 1)
    /\ (loop_step >= 1 /\ loop_step >= max_loops) => node = "end"

C4_Witness ==
    /\ max_loops >= 2
    /\ loop_step = max_loops
    /\ node = "end"
    /\ ~is_complete
    /\ Last(messages).tool_calls # <<>>

C7_EveryCallGetsAResult ==
    [][node = "tools" =>
        \A i \in 1..Len(Last(messages).tool_calls) :
            Last(messages).tool_calls[i].name # "Complete" =>
                \E j \in 1..Len(messages') :
                    /\ messages'[j].type = "tool"
                    /\ messages'[j].tool_call_id = Last(messages).tool_calls[i].id]_vars

\* C8 (as claimed): is_complete starts false, and once it is true no node
\* executes any more and it stays true.
C8_CompleteStopsTheRun ==
    /\ ~is_complete
    /\ [][~is_complete]_vars

\* C10 (as claimed): once agent_node or reflection_node has raised, messages
\* holds an error message of the assistant and is_complete is true, and
\* stays so.
C10_NodeErrorIsTerminal ==
    raised_in # {} =>
        /\ is_complete
        /\ \E j \in 1..Len(messages) : IsErrorMessage(messages[j])

\* s is the beginning of t
IsPrefix(s, t) == Len(s) <= Len(t) /\ SubSeq(t, 1, Len(s)) = s

\* C17 (as claimed): messages is append-only: after every execution of a
\* node (agent, tools, reflect) the previous value of messages is the
\* beginning of the new value.
C17_MessagesAppendOnly == [][IsPrefix(messages, messages')]_vars

\* the reflection model answered, and its answer starts with "COMPLETE:"
AnswersComplete(outcome) ==
    ~outcome.raised /\ outcome.content # <<>> /\ Head(outcome.content) = "COMPLETE:"

\* C18: current_progress is only ever extended: an agent step leaves it as
\* it is; after a tools step and after a reflect step that does not answer
\* COMPLETE (it answers CONTINUE or something else, or it raises) the
\* previous current_progress is the beginning of the new one; a reflect step
\* that answers COMPLETE replaces it by the summary of the answer.
C18_ProgressOnlyExtended ==
    [][/\ agent_step => current_progress' = current_progress
       /\ tools_step => IsPrefix(current_progress, current_progress')
       /\ \A outcome \in ReflectionOutcomes :
            Reflect(outcome) =>
                IF AnswersComplete(outcome)
                THEN current_progress' = StripPrefix(outcome.content, "COMPLETE:")
                ELSE IsPrefix(current_progress, current_progress')]_vars

\* a run whose progress was extended by a tools step and then by a reflect
\* step that answered CONTINUE
C18_Witness ==
    /\ Len(current_progress) > 5
    /\ Head(current_progress) = "Used "
    /\ \E i \in 2..Len(current_progress) : current_progress[i] = "\nNext: "

\* the response carries a tool call other than Complete
HasOtherCall(calls) == \E i \in 1..Len(calls) : calls[i].name # "Complete"

\* the node the rules of C20 choose, first match first
FirstMatchingRule(calls, ls, ml, ic) ==
    IF ls >= ml THEN "end"
    ELSE IF ic THEN "end"
    ELSE IF HasOtherCall(calls) THEN "tools"
    ELSE IF calls # <<>> THEN "end"
    ELSE IF ls > 0 /\ ls % 3 = 0 THEN "reflect"
    ELSE "agent"

\* C20: after every pass through agent, whatever loop_step, max_loops,
\* is_complete and the tool calls of the latest response are, the node
\* executed next is the one chosen by the first matching rule of:
\* loop_step >= max_loops -> end; is_complete -> end; the response carries a
\* call other than Complete -> tools; it carries only Complete -> end;
\* loop_step > 0 and loop_step mod 3 = 0 -> reflect; otherwise -> agent.
C20_FirstMatchingRuleChoosesNode ==
    [][agent_step =>
          node' = FirstMatchingRule(Last(messages').tool_calls, loop_step',
                                    max_loops, is_complete')]_vars

\* an agent pass below the loop limit whose response mixes Complete with a
\* call of another tool has been routed
C20_Witness ==
    /\ agent_passes > 0
    /\ loop_step < max_loops
    /\ raised_in = {}
    /\ messages # <<>>
    /\ HasComplete(Last(messages).tool_calls)
    /\ HasOtherCall(Last(messages).tool_calls)
    /\ node = "end"

\* C21: after every pass through agent_node in which the model call does
\* not raise, is_complete is true if and only if the model's response
\* contains a tool call named Complete.
C21_CompleteIffCompleteCall ==
    [][\A outcome \in AgentOutcomes :
          (Agent(outcome) /\ ~outcome.raised)
          => (is_complete' <=> HasComplete(outcome.response.tool_calls))]_vars

\* an agent pass that did not raise, whose response calls Complete after a
\* call of another tool, has set is_complete
C21_Witness ==
    /\ agent_passes > 0
    /\ raised_in = {}
    /\ is_complete
    /\ Len(Last(messages).tool_calls) = 2
    /\ Last(messages).tool_calls[1].name # "Complete"
    /\ Last(messages).tool_calls[2].name = "Complete"

\* the progress lines "Used {name}: {content}" of results, joined by "\n"
RECURSIVE ProgressLines(_)
ProgressLines(results) ==
    IF results = <<>> THEN <<>>
    ELSE <<"Used ", Head(results).name, ": ">> \o Head(results).content
         \o (IF Tail(results) = <<>> THEN <<>>
             ELSE <<"\n">> \o ProgressLines(Tail(results)))

\* C22 (as claimed): one pass through the tools node returns exactly one
\* ToolMessage per tool call of the latest agent response, in the order of
\* the calls; it appends one line "Used {name}: {content}" per ToolMessage
\* to current_progress, in the same order; the node executed next is agent.
C22_OneResultAndLinePerCall ==
    [][tools_step =>
          LET calls == Last(messages).tool_calls IN
          /\ Len(messages') = Len(calls)
          /\ \A i \in 1..Len(messages') :
                /\ i <= Len(calls)
                /\ messages'[i].type = "tool"
                /\ messages'[i].tool_call_id = calls[i].id
          /\ current_progress'
                = current_progress
                  \o (IF current_progress # <<>> /\ messages' # <<>>
                      THEN <<"\n">> ELSE <<>>)
                  \o ProgressLines(messages')
          /\ node' = "agent"]_vars

\* C23: a reflect step whose model call answers: when the answer starts
\* with "COMPLETE:", is_complete becomes true and current_progress becomes
\* the summary (the answer without the prefix); for every other answer
\* is_complete stays false and the feedback is appended to current_progress
\* (after "\nNext: "); in both cases the node executed next is agent.
C23_ReflectIsBinary ==
    [][\A outcome \in ReflectionOutcomes :
          (Reflect(outcome) /\ ~outcome.raised)
          => /\ node' = "agent"
             /\ IF Head(outcome.content) = "COMPLETE:"
                THEN /\ is_complete'
                     /\ current_progress' = Tail(outcome.content)
                ELSE /\ ~is_complete /\ ~is_complete'
                     /\ IsPrefix(current_progress, current_progress')
                     /\ current_progress' # current_progress
                     /\ LET feedback == IF Head(outcome.content) = "CONTINUE:"
                                        THEN Tail(outcome.content)
                                        ELSE outcome.content
                        IN  SubSeq(current_progress',
                                   Len(current_progress') - Len(feedback) + 1,
                                   Len(current_progress')) = feedback]_vars

\* a reflect step that answered COMPLETE has replaced the progress, which
\* a tools pass had filled, by the summary
C23_Witness ==
    /\ node = "agent"
    /\ is_complete
    /\ raised_in = {}
    /\ tool_outcomes.calls # <<>>
    /\ current_progress = <<"all done">>
    /\ Last(messages) = AIMessage(<<"all done">>, <<>>)

\* the events put on the queue by the step
NewEvents == SubSeq(enqueued', Len(enqueued) + 1, Len(enqueued'))

\* the events of all the blocks of an increment, in the order of the
\* blocks: a text event per text block that is not empty, a tool_name event
\* per tool-use block whose id has not been seen (none for Complete)
RECURSIVE BlockEvents(_, _)
BlockEvents(blocks, seen) ==
    IF blocks = <<>> THEN <<>>
    ELSE LET b == Head(blocks) IN
         IF b.type = "text"
         THEN (IF b.text # <<>>
               THEN <<StreamingChatResponse("text", b.text, "", FALSE)>> ELSE <<>>)
              \o BlockEvents(Tail(blocks), seen)
         ELSE (IF b.id \notin seen /\ b.name # "Complete"
               THEN <<StreamingChatResponse("tool", <<"Tool: ", b.name>>, b.id, FALSE)>>
               ELSE <<>>)
              \o BlockEvents(Tail(blocks), seen \cup {b.id})

\* C24 (as claimed): the callback called with a block-structured agent
\* increment enqueues the events of all its blocks, in the order of the
\* blocks; no block after the first that emits is skipped.
C24_EveryBlockSurfaced ==
    [][\A chunk \in StreamChunks :
          (chunk.node = "agent" /\ chunk.kind = "list" /\ Callback(chunk))
          => NewEvents = BlockEvents(chunk.blocks, seen_tool_calls)]_vars

\* C25 (as claimed): the callback called with a flat agent increment that
\* carries a content string (not empty, not blank) and a tool-call list
\* enqueues a text event with the whole string and, after it, a tool_name
\* event for every call of the list whose id has not been seen.
C25_TextDoesNotSuppressCalls ==
    [][\A chunk \in StreamChunks :
          (/\ chunk.node = "agent" /\ chunk.kind = "str"
           /\ ~IsBlank(chunk.text) /\ chunk.tool_calls # <<>>
           /\ Callback(chunk))
          => NewEvents = <<StreamingChatResponse("text", chunk.text, "", FALSE)>>
                         \o BlockEvents(CallItems(chunk.tool_calls), seen_tool_calls)]_vars

\* the tool calls an agent increment carries: its tool-use blocks, or the
\* entries of its tool-call list
CallsOf(chunk) ==
    IF chunk.kind = "list"
    THEN SelectSeq(chunk.blocks, LAMBDA b : b.type = "tool_use")
    ELSE CallItems(chunk.tool_calls)

\* no event that names the Complete call has been put on the queue
CompleteNeverSurfaced ==
    \A i \in 1..Len(enqueued) : enqueued[i].content # <<"Tool: ", "Complete">>

\* C26 (as claimed): no event for a tool call named Complete is ever put on
\* the queue, and once the callback has been called with an agent increment
\* that carries a Complete call, the id of that call is in seen_tool_calls.
C26_CompleteSilentButSeen ==
    [][\A chunk \in StreamChunks :
          (chunk.node = "agent" /\ Callback(chunk))
          => /\ CompleteNeverSurfaced'
             /\ \A i \in 1..Len(CallsOf(chunk)) :
                   CallsOf(chunk)[i].name = "Complete"
                   => CallsOf(chunk)[i].id \in seen_tool_calls']_vars

\* C27: while run_chat is running no terminal event has been enqueued; once
\* it has ended, whichever way (chat returned, chat raised, the deadline
\* expired, the consumer cancelled it), exactly one terminal event has been
\* enqueued, and it was enqueued after every other event of the run.
C27_TerminalEnqueuedOnceAndLast ==
    /\ chat_task = "running" => Terminals(enqueued) = {}
    /\ chat_task # "running" => Terminals(enqueued) = {Len(enqueued)}

\* the deadline expired in a run that had enqueued two events before
C27_Witness ==
    /\ chat_task = "timedout"
    /\ Len(enqueued) = 3
    /\ enqueued[1].type = "text"
    /\ enqueued[2].type = "tool"
    /\ enqueued[3].type = "complete"

(***************************************************************************)
(* The interactive run under the scheduling of the event loop: the         *)
(* forwarding loop polls the queue every 0.1 s (app.py:416), so an item on *)
(* the queue is taken and an exhausted loop condition is noticed; the code *)
(* after the loop runs once the loop is left.                              *)
(***************************************************************************)
StreamLiveSpec == StreamSpec /\ WF_vars(ConsumerLoop) /\ WF_vars(ConsumerCleanup)

\* the forwarding loop has been left
LoopExited == consumer # "loop"

\* C28: once the producer task has finished (chat returned, raised or timed
\* out), the forwarding loop is eventually left; and whenever it has been
\* left, a terminal event has been forwarded or the queue is empty and the
\* producer has finished, and no event that is not terminal is left on the
\* queue.
C28_LoopExitsAfterDraining ==
    /\ (chat_task # "running") ~> LoopExited
    /\ [](LoopExited =>
            /\ \/ Terminals(forwarded) # {}
               \/ (chunk_queue = <<>> /\ chat_complete)
            /\ \A i \in 1..Len(chunk_queue) : IsTerminal(chunk_queue[i]))

\* the loop has been left after a run that returned, with the two events
\* of the run and the terminal event forwarded
C28_Witness ==
    /\ consumer = "cleanup"
    /\ chat_task = "returned"
    /\ Len(forwarded) = 3
    /\ ~IsTerminal(forwarded[1]) /\ ~IsTerminal(forwarded[2])
    /\ chunk_queue = <<>>

(***************************************************************************)
(* One call of AgentService.chat (agent_service.py:264-304): it awaits     *)
(* the run of the direct graph under asyncio.wait_for, with the            *)
(* recursion_limit of the request in the run's config.  The graph run      *)
(* makes one step per node executed; the await ends with the result of     *)
(* the run, with TimeoutError when the deadline expires, with the          *)
(* exception of a model call that failed, or, when the steps have reached  *)
(* recursion_limit, the way langgraph ends such a run: with                *)
(* GraphRecursionError, or with a closing message put in by the agent      *)
(* node ("out_of_steps").                                                  *)
(***************************************************************************)
\* values of recursion_limit a call is made with
RecursionLimits == {2, 4}

\* a graph run that no number of steps stops
out_of_steps_never(steps, limit) == FALSE

\* the steps the graph run has made have used up recursion_limit
out_of_steps(steps, limit) == steps >= limit

\* chat that reports a failed run in the dictionary it returns
chat_returning_errors(awaited, detail) ==
    IF awaited = "TimeoutError"
    THEN [call |-> "raised",
          error |-> <<"Request timed out after ", "timeout_seconds", " seconds">>]
    ELSE [call |-> "returned", error |-> detail]

\* the try/except of chat: what the caller gets when the await of
\* wait_for(astream_graph(...)) ends as awaited says; detail is str(e)
chat(awaited, detail) ==
    IF awaited = "TimeoutError"
    THEN [call |-> "raised",
          error |-> <<"Request timed out after ", "timeout_seconds", " seconds">>]
    ELSE IF awaited \in {"Exception", "GraphRecursionError"}
    THEN [call |-> "raised", error |-> <<"Error during chat: ">> \o detail]
    ELSE [call |-> "returned", error |-> <<>>]

BatchInit ==
    /\ GraphInit /\ max_loops = MaxLoops
    /\ StreamInit
    /\ ServiceInit
    /\ AgentServiceInit /\ ConfigInit /\ StreamingServiceInit
    /\ \E limit \in RecursionLimits :
         batch = [call |-> "awaiting", awaited |-> "pending", error |-> <<>>,
                  recursion_limit |-> limit, steps |-> 0]

BatchStep ==
    /\ batch.call = "awaiting"
    /\ ~out_of_steps(batch.steps, batch.recursion_limit)
    /\ batch' = [batch EXCEPT !.steps = @ + 1]
    /\ UNCHANGED <<stream_vars, current_callback, requests, admin_vars>>

BatchAgent == BatchStep /\ \E r \in DirectResponses : direct_agent(r)

BatchTools ==
    BatchStep /\ \E outs \in [1..Len(Last(messages).tool_calls) -> {"ok", "raise"}] :
                    direct_tools(outs)

\* the await ends and chat returns or raises
BatchEnds(awaited, detail) ==
    /\ batch.call = "awaiting"
    /\ batch' = [batch EXCEPT !.awaited = awaited,
                              !.call = chat(awaited, detail).call,
                              !.error = chat(awaited, detail).error]
    /\ UNCHANGED <<graph_vars, stream_vars, current_callback, requests, admin_vars>>

BatchGraphReturns == node = "end" /\ BatchEnds("result", <<>>)

BatchModelRaises == node = "agent" /\ BatchEnds("Exception", ErrorText)

BatchDeadline == node \in {"agent", "tools"} /\ BatchEnds("TimeoutError", <<>>)

BatchOutOfSteps ==
    /\ node \in {"agent", "tools"}
    /\ out_of_steps(batch.steps, batch.recursion_limit)
    /\ \/ BatchEnds("GraphRecursionError", <<"Recursion limit reached">>)
       \/ BatchEnds("out_of_steps", <<>>)

BatchNext ==
    \/ BatchAgent
    \/ BatchTools
    \/ BatchGraphReturns
    \/ BatchModelRaises
    \/ BatchDeadline
    \/ BatchOutOfSteps

BatchSpec == BatchInit /\ [][BatchNext]_vars

\* C29: when the deadline expired or the graph run raised an exception,
\* chat has raised an error that says so to its caller; chat has returned a
\* result only for a run that ended without raising.
C29_FailureIsRaised ==
    /\ batch.awaited \in {"TimeoutError", "Exception", "GraphRecursionError"}
         => (batch.call = "raised" /\ batch.error # <<>>)
    /\ batch.call = "returned" => batch.awaited \in {"result", "out_of_steps"}

\* the model call of the second agent pass failed and chat raised
C29_Witness ==
    /\ batch.awaited = "Exception"
    /\ batch.call = "raised"
    /\ batch.steps = 2
    /\ node = "agent"

\* every response of the model so far has requested a tool
KeepsRequestingTools ==
    /\ \E i \in 1..Len(messages) : messages[i].type = "ai"
    /\ \A i \in 1..Len(messages) :
          messages[i].type = "ai" => messages[i].tool_calls # <<>>

\* the call of chat is over, and no model call failed
BatchOver == batch.call \in {"returned", "raised"} /\ batch.awaited # "Exception"

\* C30 (as claimed): a run of the direct graph whose model has requested a
\* tool in every response is stopped by the deadline and by nothing else.
C30_OnlyDeadlineStops ==
    (BatchOver /\ KeepsRequestingTools) => batch.awaited = "TimeoutError"

\* C30 (amended): the steps of a run of the direct graph never exceed the
\* recursion_limit of the call; a run whose model has requested a tool in
\* every response is stopped by the deadline or by the recursion limit, and
\* by the recursion limit only when the steps have reached it.
C30_StoppedByDeadlineOrRecursionLimit ==
    /\ batch.steps <= batch.recursion_limit
    /\ (BatchOver /\ KeepsRequestingTools)
         => batch.awaited \in {"TimeoutError", "GraphRecursionError", "out_of_steps"}
    /\ batch.awaited \in {"GraphRecursionError", "out_of_steps"}
         => batch.steps = batch.recursion_limit

\* a run that requested a tool in both of its agent passes was stopped by
\* the recursion limit after four steps
C30_Witness ==
    /\ batch.awaited = "GraphRecursionError"
    /\ batch.steps = 4
    /\ KeepsRequestingTools
    /\ Len(messages) >= 5

\* C31: whenever a reflective run is at end, is_complete is true or
\* loop_step >= max_loops: a latest response that carries the Complete call
\* never ends the run by the tool-call rule alone, because agent_node has
\* set is_complete for it.
C31_EndMeansCompleteOrLimit ==
    /\ node = "end" => (is_complete \/ loop_step >= max_loops)
    /\ (agent_passes > 0 /\ node = "end" /\ HasComplete(Last(messages).tool_calls))
         => is_complete

\* a run has ended below the loop limit on a response that carries only
\* the Complete call
C31_Witness ==
    /\ node = "end"
    /\ loop_step < max_loops
    /\ raised_in = {}
    /\ Len(Last(messages).tool_calls) = 1
    /\ Last(messages).tool_calls[1].name = "Complete"
    /\ is_complete

\* C32: the tools node is never entered while the latest agent response
\* carries a call named Complete, and no ToolMessage "Task completed" (the
\* placeholder result of a Complete call) is ever produced.
C32_ToolsNeverSeesComplete ==
    /\ node = "tools" => ~HasComplete(Last(messages).tool_calls)
    /\ \A i \in 1..Len(messages) :
          ~(messages[i].type = "tool" /\ messages[i].name = "Complete")

\* the first response of a run called Complete and then a registered tool,
\* and the run went to end, not to tools
C32_Witness ==
    /\ agent_passes = 1
    /\ loop_step < max_loops
    /\ raised_in = {}
    /\ Len(Last(messages).tool_calls) = 2
    /\ Last(messages).tool_calls[1].name = "Complete"
    /\ Last(messages).tool_calls[2].name = "get_weather"
    /\ node = "end"

(***************************************************************************)
(* Two POST /chat requests on the one AgentService of the process          *)
(* (app.py:39).  A handler runs without suspension from its check of       *)
(* current_model through initialize_agent to the point where chat() has    *)
(* passed self.agent to astream_graph and awaits the run: initialize_agent *)
(* awaits only MCPService.initialize, which never suspends.  The run       *)
(* itself is awaited, so the handler of the other request can execute      *)
(* while it lasts.  Specification ModelSwitchSpec.                         *)
(***************************************************************************)
\* models a request can name (keys of output_token_info)
Models == {"claude-3-7-sonnet-latest", "claude-3-5-haiku-latest", "gpt-4o"}

\* the condition under which the handler calls initialize_agent
needs_initialize(svc, model) == svc.agent = "None" \/ svc.current_model # model

\* initialize_agent(model_name): built says whether create_react_agent
\* returned a graph; when it raised, the service is left as it was and the
\* call returns False
initialize_agent(svc, model_name, built) ==
    IF built THEN [agent |-> model_name, current_model |-> model_name] ELSE svc

\* "model_used": self.current_model, evaluated after the awaited run
model_used(r) == agent_service.current_model

\* the handler of request r, which names model, up to the await of the run
chat_starts(r, model, built) ==
    /\ chat_requests[r].pc = "idle"
    /\ LET init == needs_initialize(agent_service, model)
           svc == IF init THEN initialize_agent(agent_service, model, built)
                  ELSE agent_service
       IN  /\ init \/ built
           /\ agent_service' = svc
           /\ chat_requests' =
                 [chat_requests EXCEPT ![r] =
                    IF init /\ ~built
                    THEN [pc |-> "failed", model |-> model, runs_on |-> "None",
                          model_used |-> "None"]
                    ELSE [pc |-> "running", model |-> model, runs_on |-> svc.agent,
                          model_used |-> "None"]]

\* the run of request r is over: chat() returns its answer, or raises
chat_ends(r, returned) ==
    /\ chat_requests[r].pc = "running"
    /\ chat_requests' =
          [chat_requests EXCEPT ![r] =
             IF returned
             THEN [@ EXCEPT !.pc = "answered", !.model_used = model_used(r)]
             ELSE [@ EXCEPT !.pc = "failed"]]
    /\ UNCHANGED agent_service

ChatStarts ==
    /\ \E r \in Requests, model \in Models, built \in BOOLEAN : chat_starts(r, model, built)
    /\ UNCHANGED <<graph_vars, stream_vars, current_callback, requests, batch,
                   config_file, mcp_service, streaming_service>>

ChatEnds ==
    /\ \E r \in Requests, returned \in BOOLEAN : chat_ends(r, returned)
    /\ UNCHANGED <<graph_vars, stream_vars, current_callback, requests, batch,
                   config_file, mcp_service, streaming_service>>

ModelSwitchNext == ChatStarts \/ ChatEnds

ModelSwitchSpec == StreamSpecInit /\ [][ModelSwitchNext]_vars

\* C33 (as claimed): a request that runs, runs on the agent built for the
\* model it named, and a request that was answered was answered with that
\* model as model_used, whatever the other request did meanwhile.
C33_RunsOnAndReportsRequestedModel ==
    \A r \in Requests :
        /\ chat_requests[r].pc \in {"running", "answered"}
             => chat_requests[r].runs_on = chat_requests[r].model
        /\ chat_requests[r].pc = "answered"
             => chat_requests[r].model_used = chat_requests[r].model

\* the half of C33 that holds: every run executes on the agent built for
\* the model its request named
RunsOnRequestedModel ==
    \A r \in Requests :
        chat_requests[r].pc \in {"running", "answered"}
        => chat_requests[r].runs_on = chat_requests[r].model

(***************************************************************************)
(* The tools node of the reflective graph when an event callback is set    *)
(* (GraphService.set_callback) and that callback can raise.  Specification *)
(* AnnounceSpec: a run started with max_loops = 2, which makes at most one *)
(* tools pass and never enters reflect.                                    *)
(***************************************************************************)
\* what the callback does when tool_node announces the arguments of a call:
\* it is called only for a call whose tool was found and whose arguments
\* are not empty; it returns ("sent") or raises an Exception ("raise")
AnnounceOutcomes(call, out) ==
    IF out # "none" /\ call.args # <<>> THEN {"sent", "raise"} ELSE {"skipped"}

CallbackOutcomes(calls, outs) ==
    {c \in [1..Len(calls) -> {"sent", "raise", "skipped"}] :
        \A i \in 1..Len(calls) : c[i] \in AnnounceOutcomes(calls[i], outs[i])}

\* an announcement without the try/except around it: the exception of the
\* callback leaves the block
announce_tool_args_uncaught(cb) == cb

\* the try/except around the announcement: an exception of the callback
\* is logged and does not leave the block
announce_tool_args(cb) == IF cb = "raise" THEN "logged" ELSE cb

\* one iteration of the loop of tool_node with the callback set: whether
\* tool.ainvoke was reached and the ToolMessages appended.  An exception
\* that leaves the announcement is caught by the except of the call, which
\* appends the error message instead of invoking the tool.
announced_call_result(call, out, cb) ==
    IF call.name = "Complete" \/ out = "none"
    THEN [invoked |-> FALSE, results |-> tool_call_result(call, out)]
    ELSE IF announce_tool_args(cb) = "raise"
    THEN [invoked |-> FALSE,
          results |-> <<ToolMessage(<<"Error: ">> \o ErrorText, call.id, call.name)>>]
    ELSE [invoked |-> TRUE, results |-> tool_call_result(call, out)]

\* the loop of tool_node with the callback set
RECURSIVE announced_results(_, _, _)
announced_results(calls, outs, cbs) ==
    IF calls = <<>> THEN <<>>
    ELSE announced_results(SubSeq(calls, 1, Len(calls) - 1),
                           SubSeq(outs, 1, Len(outs) - 1),
                           SubSeq(cbs, 1, Len(cbs) - 1))
         \o announced_call_result(Last(calls), Last(outs), Last(cbs)).results

\* tool_node with the callback set
announcing_tools_step ==
    /\ node = "tools"
    /\ LET calls == Last(messages).tool_calls
       IN  \E outs \in ToolOutcomes(calls) : \E cbs \in CallbackOutcomes(calls, outs) :
             LET results == announced_results(calls, outs, cbs)
             IN  /\ messages' = results
                 /\ current_progress' = _extract_progress(results, current_progress)
                 /\ tool_outcomes' =
                       [calls |-> calls, outs |-> outs, cbs |-> cbs,
                        invoked |-> {i \in 1..Len(calls) :
                           announced_call_result(calls[i], outs[i], cbs[i]).invoked}]
    /\ node' = "agent"
    /\ UNCHANGED <<loop_step, is_complete, max_loops, agent_passes, raised_in>>

AnnouncingToolNode == announcing_tools_step /\ UNCHANGED <<stream_vars, service_vars>>

AnnounceNext == AgentNode \/ AnnouncingToolNode

AnnounceSpec == ReflectiveRunInit /\ [][AnnounceNext]_vars

\* C34: in a tools pass, a call whose announcement made the callback raise
\* still has its tool invoked and its ToolResult produced (the output of the
\* tool, or its error when the tool itself fails), and the results of the
\* whole pass are those of a pass in which no announcement failed.
C34_CallbackFailureKeepsResults ==
    [][(node = "tools" /\ node' = "agent")
       => LET calls == tool_outcomes'.calls
              outs == tool_outcomes'.outs
              cbs == tool_outcomes'.cbs
          IN  /\ messages' = tool_results(calls, outs)
              /\ \A i \in 1..Len(calls) :
                    cbs[i] = "raise"
                    => /\ i \in tool_outcomes'.invoked
                       /\ \E k \in 1..Len(messages') :
                             /\ messages'[k].tool_call_id = calls[i].id
                             /\ messages'[k].content =
                                   IF outs[i] = "ok" THEN ToolOutput
                                   ELSE <<"Error: ">> \o ErrorText]_vars

\* a pass of two calls: the announcement of the first made the callback
\* raise, the second was announced; both tools ran and returned
C34_Witness ==
    /\ node = "agent"
    /\ Len(messages) = 2
    /\ messages[1].type = "tool" /\ messages[1].content = ToolOutput
    /\ messages[2].type = "tool" /\ messages[2].content = ToolOutput
    /\ tool_outcomes.outs = <<"ok", "ok">>
    /\ "cbs" \in DOMAIN tool_outcomes
    /\ tool_outcomes.cbs = <<"raise", "sent">>
    /\ tool_outcomes.invoked = {1, 2}

(***************************************************************************)
(* ConfigService and MCPService: the stored configuration, the client      *)
(* built from it, and the calls that read and change them.  Specification  *)
(* ConfigSpec.  The configuration file is readable or, after a write that  *)
(* failed midway, not parseable; reading and writing it can fail.          *)
(***************************************************************************)
\* the server names a configuration can hold, in the order of its keys
ServerNames == <<"get_current_time", "weather">>

\* the tools each server offers
ToolsOf(server_name) ==
    IF server_name = "get_current_time" THEN <<"get_current_time">>
    ELSE <<"get_weather", "get_forecast">>

\* tool entries a caller can submit
ToolEntries ==
    {ToolEntry("python", <<"./mcp_servers/time_server.py">>, "", "stdio"),
     ToolEntry("", <<>>, "http://localhost:8005/mcp", "http"),
     ToolEntry("", <<>>, "http://localhost:8005/mcp", ""),
     ToolEntry("", <<>>, "", "stdio"),
     ToolEntry("python", <<>>, "", "stdio"),
     ToolEntry("python", <<"./weather.py">>, "", "http")}

\* the configurations a caller can submit: entries for some of the names
Configs ==
    UNION {[names -> ToolEntries] : names \in SUBSET {ServerNames[i] : i \in 1..Len(ServerNames)}}

\* the transport validate_tool_config leaves in the entry it was given
default_transport(entry) ==
    IF entry.url # "" /\ entry.transport = "" THEN "http"
    ELSE IF entry.transport = "" THEN "stdio"
    ELSE entry.transport

\* validate_tool_config: TRUE when it returns, FALSE when it raises ValueError
validate_tool_config(entry) ==
    /\ ~(entry.command = "" /\ entry.url = "")
    /\ ~(entry.command # "" /\ entry.args = <<>>)
    /\ ~(default_transport(entry) = "http" /\ entry.url = "")

\* outcomes of writing the file: written, not opened, or truncated by a
\* write that failed after the file was opened with mode "w"
SaveOutcomes == {"ok", "unwritten", "truncated"}

\* save_config: the file it leaves and whether it raised
save_config(file, config, save) ==
    IF save = "ok" THEN [file |-> [readable |-> TRUE, config |-> config], raised |-> FALSE]
    ELSE IF save = "unwritten" THEN [file |-> file, raised |-> TRUE]
    ELSE [file |-> [readable |-> FALSE, config |-> [n \in {} |-> n]], raised |-> TRUE]

\* load_config raises when the file cannot be read or parsed
load_raises(file, load_ok) == ~load_ok \/ ~file.readable

\* update_config that writes the new configuration before it validates it
update_config_save_first(file, new_config, save) ==
    LET saved == save_config(file, new_config, save)
    IN  IF \E n \in DOMAIN new_config : ~validate_tool_config(new_config[n])
        THEN [file |-> saved.file, result |-> "raised"]
        ELSE [file |-> saved.file, result |-> IF saved.raised THEN "raised" ELSE "returned"]

\* ConfigService.update_config: the file it leaves and how it ended
update_config(file, new_config, save) ==
    IF \E n \in DOMAIN new_config : ~validate_tool_config(new_config[n])
    THEN [file |-> file, result |-> "raised"]
    ELSE LET saved == save_config(file, new_config, save)
         IN  [file |-> saved.file, result |-> IF saved.raised THEN "raised" ELSE "returned"]

\* ConfigService.add_tool: load, set the entry, save
add_tool(file, tool_name, entry, load_ok, save) ==
    IF load_raises(file, load_ok) THEN [file |-> file, raised |-> TRUE]
    ELSE save_config(file,
                     [n \in DOMAIN file.config \cup {tool_name} |->
                         IF n = tool_name THEN entry ELSE file.config[n]],
                     save)

\* MCPService.initialize: the client it leaves and what it returns
initialize(file, load_ok) ==
    IF load_raises(file, load_ok) THEN [client |-> NoClient, result |-> "False"]
    ELSE IF DOMAIN file.config = {} THEN [client |-> NoClient, result |-> "False"]
    ELSE [client |-> [connected |-> TRUE, connections |-> file.config], result |-> "True"]

\* whether the temporary client of test_and_add_tool can reach the server:
\* an entry without command and url, or with http transport and no url,
\* names nothing to connect to
ConnectOutcomes(entry) ==
    IF (entry.command = "" /\ entry.url = "") \/ (entry.transport = "http" /\ entry.url = "")
    THEN {FALSE} ELSE BOOLEAN

\* what the environment does during one call of test_and_add_tool
Environments(entry) ==
    [connects : ConnectOutcomes(entry), load_ok : BOOLEAN, save : SaveOutcomes,
     reload_ok : BOOLEAN]

\* MCPService.test_and_add_tool: the file and client it leaves, what it returns
test_and_add_tool(file, client, tool_name, entry, env) ==
    IF ~env.connects \/ ~validate_tool_config(entry)
    THEN [file |-> file, client |-> client, result |-> "False"]
    ELSE LET added == add_tool(file, tool_name,
                               [entry EXCEPT !.transport = default_transport(entry)],
                               env.load_ok, env.save)
         IN  IF added.raised
             THEN [file |-> added.file, client |-> client, result |-> "False"]
             ELSE LET init == initialize(added.file, env.reload_ok)
                  IN  [file |-> added.file, client |-> init.client, result |-> init.result]

\* Optional[List[str]]: None, or a list of server names
EnabledTools ==
    {[given |-> FALSE, names |-> <<>>]}
    \cup {[given |-> TRUE, names |-> names] :
             names \in UNION {[1..k -> {ServerNames[i] : i \in 1..Len(ServerNames)}] : k \in 0..2}}

\* client.get_tools(server_name=...): raises for a name the client has no
\* connection for
RECURSIVE tools_of_servers(_, _)
tools_of_servers(client, names) ==
    IF names = <<>> THEN <<>>
    ELSE (IF Head(names) \in DOMAIN client.connections THEN ToolsOf(Head(names)) ELSE <<>>)
         \o tools_of_servers(client, Tail(names))

\* MCPService.get_tools: the tools of all servers of the client, [] without client
get_tools(client) ==
    IF ~client.connected THEN <<>> ELSE tools_of_servers(client, ServerNames)

\* MCPService.get_filtered_tools
get_filtered_tools(client, enabled_tools) ==
    IF ~client.connected \/ ~enabled_tools.given \/ enabled_tools.names = <<>>
    THEN get_tools(client)
    ELSE tools_of_servers(client, enabled_tools.names)

Range(seq) == {seq[i] : i \in 1..Len(seq)}

Initialize(load_ok) ==
    /\ LET init == initialize(config_file, load_ok)
       IN  mcp_service' = [client |-> init.client,
                           call |-> [op |-> "initialize", input |-> <<>>,
                                     result |-> init.result, tools |-> <<>>]]
    /\ UNCHANGED config_file

GetFilteredTools(enabled_tools) ==
    /\ mcp_service' =
          [mcp_service EXCEPT !.call =
             [op |-> "get_filtered_tools", input |-> enabled_tools, result |-> "returned",
              tools |-> get_filtered_tools(mcp_service.client, enabled_tools)]]
    /\ UNCHANGED config_file

TestAndAddTool(tool_name, entry, env) ==
    LET r == test_and_add_tool(config_file, mcp_service.client, tool_name, entry, env)
    IN  /\ config_file' = r.file
        /\ mcp_service' = [client |-> r.client,
                            call |-> [op |-> "test_and_add_tool",
                                      input |-> <<tool_name, entry>>,
                                      result |-> r.result, tools |-> <<>>]]

UpdateConfig(new_config, save) ==
    LET r == update_config(config_file, new_config, save)
    IN  /\ config_file' = r.file
        /\ mcp_service' = [mcp_service EXCEPT !.call =
                              [op |-> "update_config", input |-> new_config,
                               result |-> r.result, tools |-> <<>>]]

ConfigUnchanged ==
    UNCHANGED <<graph_vars, stream_vars, current_callback, requests, batch,
                agent_service, chat_requests, streaming_service>>

InitializeCall == (\E load_ok \in BOOLEAN : Initialize(load_ok)) /\ ConfigUnchanged

GetFilteredToolsCall ==
    (\E enabled_tools \in EnabledTools : GetFilteredTools(enabled_tools)) /\ ConfigUnchanged

TestAndAddToolCall ==
    /\ \E tool_name \in Range(ServerNames), entry \in ToolEntries :
          \E env \in Environments(entry) : TestAndAddTool(tool_name, entry, env)
    /\ ConfigUnchanged

UpdateConfigCall ==
    /\ \E new_config \in Configs, save \in SaveOutcomes : UpdateConfig(new_config, save)
    /\ ConfigUnchanged

ConfigNext == InitializeCall \/ GetFilteredToolsCall \/ TestAndAddToolCall \/ UpdateConfigCall

ConfigSpec == StreamSpecInit /\ [][ConfigNext]_vars

\* the latest call made on the services, after the step
LatestCall == mcp_service'.call

\* C35 (as claimed): when get_filtered_tools was called with a list, the
\* empty list included, every tool it returned belongs to a server named in
\* the list, and the returned tools are tools of the full registry.
C35_FilteredToolsAreOfNamedServers ==
    (mcp_service.call.op = "get_filtered_tools" /\ mcp_service.call.input.given)
    => /\ Range(mcp_service.call.tools)
            \subseteq UNION {Range(ToolsOf(n)) : n \in Range(mcp_service.call.input.names)}
       /\ Range(mcp_service.call.tools) \subseteq Range(get_tools(mcp_service.client))

\* the part of C35 that holds: the same for lists that are not empty, and
\* the full registry when no list is given
NonEmptyFilterIsRespected ==
    mcp_service.call.op = "get_filtered_tools"
    => IF mcp_service.call.input.given /\ mcp_service.call.input.names # <<>>
       THEN /\ Range(mcp_service.call.tools)
                 \subseteq UNION {Range(ToolsOf(n)) :
                                     n \in Range(mcp_service.call.input.names)}
            /\ Range(mcp_service.call.tools) \subseteq Range(get_tools(mcp_service.client))
       ELSE mcp_service.call.tools = get_tools(mcp_service.client)

\* C36 (as claimed): a call of test_and_add_tool that returns False leaves
\* the stored configuration as it was.
C36_FalseMeansNotSaved ==
    [][(LatestCall.op = "test_and_add_tool" /\ LatestCall.result = "False")
       => config_file' = config_file]_vars

\* the part of C36 that holds: when the connection test or the validation
\* fails, the stored configuration is as it was
RejectedToolIsNotSaved ==
    [][(/\ LatestCall.op = "test_and_add_tool"
        /\ ~validate_tool_config(LatestCall.input[2]))
       => (LatestCall.result = "False" /\ config_file' = config_file)]_vars

\* C38: a call of update_config whose new configuration has an entry that
\* fails validation raises and leaves the stored configuration as it was;
\* the stored configuration changes only when every entry validates.
C38_UpdateConfigAllOrNothing ==
    [][LatestCall.op = "update_config"
       => LET new_config == LatestCall.input
              all_valid == \A n \in DOMAIN new_config : validate_tool_config(new_config[n])
          IN  /\ ~all_valid => (LatestCall.result = "raised" /\ config_file' = config_file)
              /\ config_file' # config_file => all_valid
              /\ LatestCall.result = "returned"
                   => config_file' = [readable |-> TRUE, config |-> new_config]]_vars

\* update_config was called with one valid and one invalid entry: it raised
\* and the stored configuration is still the default one
C38_Witness ==
    /\ mcp_service.call.op = "update_config"
    /\ DOMAIN mcp_service.call.input = Range(ServerNames)
    /\ validate_tool_config(mcp_service.call.input["get_current_time"])
    /\ ~validate_tool_config(mcp_service.call.input["weather"])
    /\ mcp_service.call.result = "raised"
    /\ config_file = [readable |-> TRUE, config |-> default_config]

(***************************************************************************)
(* StreamingService.detect_model_type applied to agent increments.         *)
(* Specification DetectSpec.                                               *)
(***************************************************************************)
\* an increment as detect_model_type reads it: the type of its content
\* ("str", "list", or "other" for an object whose content is neither or
\* is missing), the content, and its tool_calls
ChunkMsg(kind, text, blocks, calls) ==
    [kind |-> kind, text |-> text, blocks |-> blocks, tool_calls |-> calls]

\* list contents: no block, one block, or a text block followed by a block
ContentLists ==
    {b \in BlockLists : Len(b) <= 2 /\ (Len(b) = 2 => b[1].type = "text")}

ChunkMsgs ==
    {ChunkMsg("str", t, <<>>, c) : t \in Texts \cup {<<" ">>}, c \in ToolCallLists}
    \cup {ChunkMsg("list", <<>>, b, c) : b \in ContentLists, c \in ToolCallLists}
    \cup {ChunkMsg("other", <<>>, <<>>, c) : c \in ToolCallLists}

\* detect_model_type that takes every increment with tool calls for OpenAI
detect_model_type_by_calls(chunk_msg) ==
    IF chunk_msg.tool_calls # <<>> THEN "openai"
    ELSE IF chunk_msg.kind = "list" THEN "anthropic"
    ELSE IF chunk_msg.kind = "str" THEN "openai"
    ELSE "unknown"

detect_model_type(chunk_msg) ==
    IF chunk_msg.tool_calls # <<>>
    THEN IF chunk_msg.kind = "list" THEN "anthropic" ELSE "openai"
    ELSE IF chunk_msg.kind = "list" THEN "anthropic"
    ELSE IF chunk_msg.kind = "str" THEN "openai"
    ELSE "unknown"

\* handle_agent_chunk classifies the increment it was given
DetectModelType ==
    /\ \E chunk_msg \in ChunkMsgs :
          streaming_service' =
             <<[chunk_msg |-> chunk_msg, model_type |-> detect_model_type(chunk_msg)]>>
    /\ UNCHANGED <<graph_vars, stream_vars, current_callback, requests, batch,
                   agent_service, chat_requests, config_file, mcp_service>>

DetectNext == DetectModelType

DetectSpec == StreamSpecInit /\ [][DetectNext]_vars

\* C37: an increment whose content is a list is classified "anthropic" and
\* one whose content is a string "openai", and in both cases the
\* classification is the one the same increment gets without its tool calls.
C37_ClassifiedByContentShape ==
    \A i \in 1..Len(streaming_service) :
        LET chunk_msg == streaming_service[i].chunk_msg
            model_type == streaming_service[i].model_type
        IN  chunk_msg.kind \in {"list", "str"}
            => /\ model_type = (IF chunk_msg.kind = "list" THEN "anthropic" ELSE "openai")
               /\ model_type = detect_model_type([chunk_msg EXCEPT !.tool_calls = <<>>])

\* a block-structured increment that also carries tool calls was classified
C37_Witness ==
    /\ streaming_service # <<>>
    /\ streaming_service[1].chunk_msg.kind = "list"
    /\ streaming_service[1].chunk_msg.blocks # <<>>
    /\ streaming_service[1].chunk_msg.tool_calls # <<>>
    /\ streaming_service[1].model_type = "anthropic"
====
